---- MODULE Spec2Model ----
(***************************************************************************)
(* Batch orchestration of src/app.py: process_audio_file, process_folder   *)
(* and process_text_files, with the speech-recognition and completion      *)
(* collaborators as nondeterministic environment (they return a text or    *)
(* raise).  Strings are sequences of one-character strings, so that        *)
(* lower(), endswith(), basename(), splitext(), join() and strip() are     *)
(* computed the way the code computes them.                                *)
(***************************************************************************)
EXTENDS Integers, Sequences, FiniteSets

VARIABLES
    pc,          \* "idle" | "loop" | "done" | "raised" (an exception left the call)
    fn,          \* the entry point that was called
    fs,          \* the file system: path -> content (DirMark for a directory)
    output_dir,  \* the output_dir argument; <<>> stands for None / ""
    items,       \* wav_files (process_folder) or file_paths (process_text_files)
    i,           \* 1-based position of the for loop in items
    results,     \* the results list
    summary,     \* <<>> or <<the summary file written>>
    console,     \* what console.print has shown, in order
    transcribed, \* the arguments transcribe() was called with, in order
    llmCalls     \* what completion() was called with, in order

vars == <<pc, fn, fs, output_dir, items, i, results, summary, console,
          transcribed, llmCalls>>

----------------------------------------------------------------------------
(* Bounds of the model. *)

MaxItems == 2

----------------------------------------------------------------------------
(* String helpers, as Python computes them. *)

Upper == <<"A", "B", "T", "V", "W", "X">>
LowerOf == <<"a", "b", "t", "v", "w", "x">>

lower_char(c) ==
    IF \E k \in 1..Len(Upper) : Upper[k] = c
    THEN LowerOf[CHOOSE k \in 1..Len(Upper) : Upper[k] = c]
    ELSE c

\* str.lower()
lower(s) == [k \in 1..Len(s) |-> lower_char(s[k])]

\* str.endswith(suffix)
endswith(s, suffix) ==
    /\ Len(s) >= Len(suffix)
    /\ SubSeq(s, Len(s) - Len(suffix) + 1, Len(s)) = suffix

Whitespace == {" ", "\n"}

\* str.strip()
strip(s) ==
    LET keep == {k \in 1..Len(s) : s[k] \notin Whitespace}
    IN  IF keep = {} THEN <<>>
        ELSE SubSeq(s, CHOOSE k \in keep : \A j \in keep : k <= j,
                       CHOOSE k \in keep : \A j \in keep : k >= j)

\* position of the last occurrence of character c in s, 0 when there is none
rfind(s, c) ==
    LET at == {k \in 1..Len(s) : s[k] = c}
    IN  IF at = {} THEN 0 ELSE CHOOSE k \in at : \A j \in at : k >= j

\* os.path.basename
basename(p) == SubSeq(p, rfind(p, "/") + 1, Len(p))

\* os.path.splitext(name)[0]: a dot that leads the name starts no extension
splitext_root(name) ==
    LET dot == rfind(name, ".")
        lead == \A k \in (rfind(name, "/") + 1)..(dot - 1) : name[k] = "."
    IN  IF dot = 0 \/ dot <= rfind(name, "/") \/ lead THEN name
        ELSE SubSeq(name, 1, dot - 1)

\* os.path.join(a, b)
join(a, b) ==
    IF b # <<>> /\ b[1] = "/" THEN b
    ELSE IF a = <<>> \/ a[Len(a)] = "/" THEN a \o b
    ELSE a \o <<"/">> \o b

----------------------------------------------------------------------------
(* Literals of the code. *)

TxtExt == <<".", "t", "x", "t">>
TranscriptionSuffix ==
    <<"_", "t", "r", "a", "n", "s", "c", "r", "i", "p", "t", "i", "o", "n",
      ".", "t", "x", "t">>
ResponseSuffix ==
    <<"_", "r", "e", "s", "p", "o", "n", "s", "e", ".", "t", "x", "t">>
FolderSummaryName ==
    <<"p", "r", "o", "c", "e", "s", "s", "i", "n", "g", "_", "s", "u", "m",
      "m", "a", "r", "y", ".", "t", "x", "t">>
TextSummaryName ==
    <<"t", "e", "x", "t", "_", "p", "r", "o", "c", "e", "s", "s", "i", "n",
      "g", "_", "s", "u", "m", "m", "a", "r", "y", ".", "t", "x", "t">>

\* prompt.PROMPT: the prompt template, with one placeholder
PROMPT == <<"R", "e", ":", " ", "{", "}">>

----------------------------------------------------------------------------
(* The environment the calls are made in. *)

DirMark == <<"<dir>">>
AudioMark == <<"<audio>">>

InFolder == <<"i", "n">>
OutDir == <<"o", "u", "t">>
OutputDirs == {<<>>, OutDir}

\* names a folder may hold
FolderEntries ==
    { <<"a", ".", "w", "a", "v">>,
      <<"B", ".", "W", "A", "V">>,
      <<"c", ".", "m", "p", "3">> }

\* paths handed to process_text_files
TextPaths ==
    { <<"a", ".", "t", "x", "t">>,
      <<"d", "/", "B", ".", "T", "X", "T">>,
      <<"i", ".", "p", "n", "g">>,
      <<"t", "x", "t">> }

\* paths handed to process_audio_file directly
SamplePath == <<"s", "/", "p", ".", "m", "p", "3">>
AudioPaths == { SamplePath, <<"i", "n", "/", "a", ".", "w", "a", "v">> }

\* what the collaborators and the text files may hold, before strip()
RawTexts == { <<"h", "i">>, <<" ", "y", "o", "\n">> }
RawResponses == { <<"o", "k", "\n">> }

SeqsUpTo(S, n) == UNION { [1..k -> S] : k \in 0..n }

Range(s) == { s[k] : k \in 1..Len(s) }

NoDup(s) == \A j, k \in 1..Len(s) : j # k => s[j] # s[k]

EmptyFs == [p \in {} |-> <<>>]

\* open(path, 'w') ... write(content)
WriteFile(f, path, content) ==
    [q \in (DOMAIN f) \cup {path} |-> IF q = path THEN content ELSE f[q]]

\* os.makedirs(d) when d does not exist
MakeDirs(f, d) == IF d \in DOMAIN f THEN f ELSE WriteFile(f, d, DirMark)

\* one console.print: what is reported, about which path, for which item of the
\* list (0: none); why carries str(e) of an error report
Event(ev, path, item) == [ev |-> ev, path |-> path, item |-> item, why |-> ""]

ErrorEvent(path, item, why) ==
    [ev |-> "Error processing", path |-> path, item |-> item, why |-> why]

----------------------------------------------------------------------------
(* get_llm_response(text): the request made of completion(), then the      *)
(* stripped content of the first choice.                                   *)

\* messages=[{"role": "user", "content": ...}]
llm_content(text) == PROMPT

LlmCall(text, item) == [text |-> text, prompt |-> llm_content(text), item |-> item]

----------------------------------------------------------------------------
(* process_audio_file(file_path, output_dir).  rawT and rawR are what the  *)
(* collaborators return, fail names the call that raises ("none": no call  *)
(* raises).  The value is what the call leaves behind.                     *)

AudioFailures(file_path, out, f) ==
    IF file_path \notin DOMAIN f THEN {"transcribe"}
    ELSE {"none", "transcribe", "llm"}
         \cup (IF out # <<>> THEN {"write_t", "write_r"} ELSE {})
         \cup (IF out # <<>> /\ out \notin DOMAIN f THEN {"makedirs"} ELSE {})

Outcome(raised, f, c, calls, result) ==
    [raised |-> raised, fs |-> f, console |-> c, calls |-> calls, result |-> result]

process_audio_file(file_path, out, f, item, rawT, rawR, fail) ==
    LET c0 == <<Event("Processing file", file_path, item)>>
        transcription == strip(rawT)
        c1 == c0 \o <<Event("Transcription", file_path, item)>>
        call == <<LlmCall(transcription, item)>>
        response == strip(rawR)
        c2 == c1 \o <<Event("Assistant response", file_path, item)>>
        f1 == MakeDirs(f, out)
        base_name == splitext_root(basename(file_path))
        transcription_path == join(out, base_name \o TranscriptionSuffix)
        f2 == WriteFile(f1, transcription_path, transcription)
        c3 == c2 \o <<Event("Transcription saved", transcription_path, item)>>
        response_path == join(out, base_name \o ResponseSuffix)
        f3 == WriteFile(f2, response_path, response)
        c4 == c3 \o <<Event("Response saved", response_path, item)>>
        result == <<transcription, response>>
    IN  CASE fail = "transcribe" -> Outcome(TRUE, f, c0, <<>>, <<>>)
          [] fail = "llm" -> Outcome(TRUE, f, c1, call, <<>>)
          [] fail = "none" /\ out = <<>> -> Outcome(FALSE, f, c2, call, result)
          [] fail = "makedirs" -> Outcome(TRUE, f, c2, call, <<>>)
          [] fail = "write_t" -> Outcome(TRUE, f1, c2, call, <<>>)
          [] fail = "write_r" -> Outcome(TRUE, f2, c3, call, <<>>)
          [] OTHER -> Outcome(FALSE, f3, c4, call, result)

----------------------------------------------------------------------------
(* The orchestrators' decisions. *)

\* the filter of the list comprehension: "if f.lower()"
wav_filter(f) == lower(f) # <<>>

RECURSIVE wav_files_of(_, _)
wav_files_of(folder_path, listing) ==
    IF listing = <<>> THEN <<>>
    ELSE LET rest == wav_files_of(folder_path, Tail(listing))
         IN  IF wav_filter(Head(listing))
             THEN <<join(folder_path, Head(listing))>> \o rest
             ELSE rest

\* as if the name were not lowered first: file_path.endswith('.txt')
is_text_file_case_sensitive(file_path) == endswith(file_path, TxtExt)

\* file_path.lower().endswith('.txt')
is_text_file(file_path) == endswith(lower(file_path), TxtExt)

\* as if the entry were put in front: results.insert(0, ...)
record_result_in_front(rs, entry) == <<entry>> \o rs

\* results.append(...)
record_result(rs, entry) == Append(rs, entry)

\* as if one try block held the whole loop: an error ends the loop
abort_after_error(k, n) == n + 1

\* the except clause ends the iteration: the for loop goes on with the next item
next_after_error(k, n) == k + 1

\* as if the condition were "if output_dir"
summary_due_without_results(out, rs) == out # <<>>

\* "if output_dir and results"
summary_due(out, rs) == out # <<>> /\ rs # <<>>

\* the lines the summary file gets: the count, then one entry per result
summary_file(path, title, rs) ==
    [ path |-> path,
      title |-> title,
      total |-> Len(rs),
      entries |-> [k \in 1..Len(rs) |->
                      [file |-> basename(rs[k].file_path), item |-> rs[k].item]] ]

----------------------------------------------------------------------------
(* Initial states: a file system holding text files, or an input folder of *)
(* recordings, or the sample recording of the tests; nothing called yet.   *)

TextWorlds ==
    UNION { [S -> RawTexts] : S \in SUBSET TextPaths }

FolderWorld(names) ==
    [p \in {InFolder} \cup { join(InFolder, n) : n \in names } |->
        IF p = InFolder THEN DirMark ELSE AudioMark]

FolderWorlds ==
    { FolderWorld(names) :
        names \in { S \in SUBSET FolderEntries : S # {} /\ Cardinality(S) <= MaxItems } }

SampleWorld == [p \in {SamplePath} |-> AudioMark]

Init ==
    /\ pc = "idle"
    /\ fn = "none"
    /\ fs \in TextWorlds \cup FolderWorlds \cup {SampleWorld}
    /\ output_dir = <<>>
    /\ items = <<>>
    /\ i = 1
    /\ results = <<>>
    /\ summary = <<>>
    /\ console = <<>>
    /\ transcribed = <<>>
    /\ llmCalls = <<>>

----------------------------------------------------------------------------
(* process_audio_file called on its own, as the test does. *)

CallProcessAudioFile ==
    /\ pc = "idle"
    /\ \E file_path \in AudioPaths, out \in OutputDirs,
          rawT \in RawTexts, rawR \in RawResponses :
         \E fail \in AudioFailures(file_path, out, fs) :
            LET o == process_audio_file(file_path, out, fs, 1, rawT, rawR, fail)
            IN  /\ fn' = "process_audio_file"
                /\ output_dir' = out
                /\ items' = <<file_path>>
                /\ i' = 2
                /\ fs' = o.fs
                /\ console' = console \o o.console
                /\ transcribed' = Append(transcribed, file_path)
                /\ llmCalls' = llmCalls \o o.calls
                /\ results' = IF o.raised THEN <<>>
                              ELSE <<[file_path |-> file_path, item |-> 1,
                                      result |-> o.result]>>
                /\ pc' = IF o.raised THEN "raised" ELSE "done"
                /\ UNCHANGED summary

----------------------------------------------------------------------------
(* process_folder(folder_path, output_dir) *)

\* os.listdir(folder_path): the names in the folder, in any order
Listings(f, folder_path) ==
    { s \in SeqsUpTo(FolderEntries, MaxItems) :
        /\ NoDup(s)
        /\ Range(s) = { n \in FolderEntries : join(folder_path, n) \in DOMAIN f } }

CallProcessFolder ==
    /\ pc = "idle"
    /\ \E out \in OutputDirs :
         /\ fn' = "process_folder"
         /\ output_dir' = out
         /\ IF InFolder \notin DOMAIN fs
            THEN /\ console' = Append(console, Event("Folder does not exist", InFolder, 0))
                 /\ pc' = "done"
                 /\ UNCHANGED <<fs, items>>
            ELSE \E listing \in Listings(fs, InFolder) :
                   LET wav_files == wav_files_of(InFolder, listing)
                   IN  /\ fs' = IF out # <<>> THEN MakeDirs(fs, out) ELSE fs
                       /\ items' = wav_files
                       /\ IF wav_files = <<>>
                          THEN /\ console' = Append(console, Event("No .wav files found", InFolder, 0))
                               /\ pc' = "done"
                          ELSE /\ console' = Append(console, Event("Found .wav files", InFolder, 0))
                               /\ pc' = "loop"
    /\ UNCHANGED <<i, results, summary, transcribed, llmCalls>>

\* one iteration of "for file_path in wav_files"
FolderItem ==
    /\ pc = "loop"
    /\ fn = "process_folder"
    /\ i <= Len(items)
    /\ \E rawT \in RawTexts, rawR \in RawResponses :
         \E fail \in AudioFailures(items[i], output_dir, fs) :
            LET file_path == items[i]
                o == process_audio_file(file_path, output_dir, fs, i, rawT, rawR, fail)
            IN  /\ fs' = o.fs
                /\ transcribed' = Append(transcribed, file_path)
                /\ llmCalls' = llmCalls \o o.calls
                /\ IF o.raised
                   THEN /\ console' = console \o o.console
                                      \o <<ErrorEvent(file_path, i, fail)>>
                        /\ i' = next_after_error(i, Len(items))
                        /\ UNCHANGED results
                   ELSE /\ console' = console \o o.console
                        /\ i' = i + 1
                        /\ results' = record_result(results,
                                         [file_path |-> file_path, item |-> i,
                                          result |-> o.result])
    /\ UNCHANGED <<pc, fn, output_dir, items, summary>>

\* "Save a summary file" and return
FolderSummary ==
    /\ pc = "loop"
    /\ fn = "process_folder"
    /\ i > Len(items)
    /\ IF summary_due(output_dir, results)
       THEN \E fail \in {"none", "write_summary"} :
              LET summary_path == join(output_dir, FolderSummaryName)
              IN  IF fail = "none"
                  THEN /\ summary' = <<summary_file(summary_path, InFolder, results)>>
                       /\ console' = Append(console, Event("Summary saved", summary_path, 0))
                       /\ pc' = "done"
                  ELSE /\ pc' = "raised"
                       /\ UNCHANGED <<summary, console>>
       ELSE /\ pc' = "done"
            /\ UNCHANGED <<summary, console>>
    /\ UNCHANGED <<fn, fs, output_dir, items, i, results, transcribed, llmCalls>>

----------------------------------------------------------------------------
(* process_text_files(file_paths, output_dir) *)

CallProcessTextFiles ==
    /\ pc = "idle"
    /\ \E file_paths \in SeqsUpTo(TextPaths, MaxItems), out \in OutputDirs :
         /\ fn' = "process_text_files"
         /\ output_dir' = out
         /\ items' = file_paths
         /\ fs' = IF out # <<>> THEN MakeDirs(fs, out) ELSE fs
    /\ pc' = "loop"
    /\ UNCHANGED <<i, results, summary, console, transcribed, llmCalls>>

TextFailures(out) ==
    {"none", "read", "llm"} \cup (IF out # <<>> THEN {"write_r"} ELSE {})

\* one iteration of "for file_path in file_paths"
TextItem ==
    /\ pc = "loop"
    /\ fn = "process_text_files"
    /\ i <= Len(items)
    /\ LET file_path == items[i]
       IN  IF file_path \notin DOMAIN fs
           THEN /\ console' = Append(console, Event("File does not exist", file_path, i))
                /\ i' = i + 1
                /\ UNCHANGED <<fs, results, llmCalls>>
           ELSE IF ~ is_text_file(file_path)
           THEN /\ console' = Append(console, Event("Not a text file", file_path, i))
                /\ i' = i + 1
                /\ UNCHANGED <<fs, results, llmCalls>>
           ELSE \E rawR \in RawResponses, fail \in TextFailures(output_dir) :
                  LET c0 == <<Event("Processing text file", file_path, i)>>
                      text == strip(fs[file_path])
                      c1 == c0 \o <<Event("Text content", file_path, i)>>
                      call == <<LlmCall(text, i)>>
                      response == strip(rawR)
                      c2 == c1 \o <<Event("Assistant response", file_path, i)>>
                      base_name == splitext_root(basename(file_path))
                      response_path == join(output_dir, base_name \o ResponseSuffix)
                      c3 == c2 \o <<Event("Response saved", response_path, i)>>
                      error == <<ErrorEvent(file_path, i, fail)>>
                  IN  CASE fail = "read" ->
                             /\ console' = console \o c0 \o error
                             /\ i' = next_after_error(i, Len(items))
                             /\ UNCHANGED <<fs, results, llmCalls>>
                        [] fail = "llm" ->
                             /\ console' = console \o c1 \o error
                             /\ llmCalls' = llmCalls \o call
                             /\ i' = next_after_error(i, Len(items))
                             /\ UNCHANGED <<fs, results>>
                        [] fail = "write_r" ->
                             /\ console' = console \o c2 \o error
                             /\ llmCalls' = llmCalls \o call
                             /\ i' = next_after_error(i, Len(items))
                             /\ UNCHANGED <<fs, results>>
                        [] OTHER ->
                             /\ console' = console \o (IF output_dir # <<>> THEN c3 ELSE c2)
                             /\ llmCalls' = llmCalls \o call
                             /\ fs' = IF output_dir # <<>>
                                      THEN WriteFile(fs, response_path, response)
                                      ELSE fs
                             /\ results' = record_result(results,
                                              [file_path |-> file_path, item |-> i,
                                               result |-> <<text, response>>])
                             /\ i' = i + 1
    /\ UNCHANGED <<pc, fn, output_dir, items, summary, transcribed>>

\* "Save a summary file" and return
TextSummary ==
    /\ pc = "loop"
    /\ fn = "process_text_files"
    /\ i > Len(items)
    /\ IF summary_due(output_dir, results)
       THEN \E fail \in {"none", "write_summary"} :
              LET summary_path == join(output_dir, TextSummaryName)
              IN  IF fail = "none"
                  THEN /\ summary' = <<summary_file(summary_path, <<>>, results)>>
                       /\ console' = Append(console, Event("Summary saved", summary_path, 0))
                       /\ pc' = "done"
                  ELSE /\ pc' = "raised"
                       /\ UNCHANGED <<summary, console>>
       ELSE /\ pc' = "done"
            /\ UNCHANGED <<summary, console>>
    /\ UNCHANGED <<fn, fs, output_dir, items, i, results, transcribed, llmCalls>>

----------------------------------------------------------------------------

Next ==
    \/ CallProcessAudioFile
    \/ CallProcessFolder
    \/ FolderItem
    \/ FolderSummary
    \/ CallProcessTextFiles
    \/ TextItem
    \/ TextSummary

Spec == Init /\ [][Next]_vars

----------------------------------------------------------------------------
(* Vocabulary of the properties. *)

Batch == {"process_folder", "process_text_files"}

\* the name ends with ".txt", in any letter case
HasTxtSuffix(p) ==
    /\ Len(p) >= 4
    /\ p[Len(p) - 3] = "."
    /\ p[Len(p) - 2] \in {"t", "T"}
    /\ p[Len(p) - 1] \in {"x", "X"}
    /\ p[Len(p)] \in {"t", "T"}

\* the name ends with ".wav", in any letter case
HasWavSuffix(p) ==
    /\ Len(p) >= 4
    /\ p[Len(p) - 3] = "."
    /\ p[Len(p) - 2] \in {"w", "W"}
    /\ p[Len(p) - 1] \in {"a", "A"}
    /\ p[Len(p)] \in {"v", "V"}

Reported(ev, k) == \E n \in 1..Len(console) : console[n].ev = ev /\ console[n].item = k

ReportedWhy(k, why) ==
    \E n \in 1..Len(console) :
        console[n].ev = "Error processing" /\ console[n].item = k /\ console[n].why = why

\* item k entered processing: it passed the checks made before the try block
Entered(k) == Reported("Processing file", k) \/ Reported("Processing text file", k)

Failed(k) == Reported("Error processing", k)

Recorded(k) == \E n \in 1..Len(results) : results[n].item = k

Responded(k) == \E n \in 1..Len(llmCalls) : llmCalls[n].item = k

\* the items that entered processing, in the order in which they did
EnteredItems ==
    LET started(e) == e.ev \in {"Processing file", "Processing text file"}
        es == SelectSeq(console, started)
    IN  [n \in 1..Len(es) |-> es[n].item]

\* item k passes the checks the orchestrator makes before processing it
Eligible(k) ==
    \/ fn = "process_folder"
    \/ fn = "process_text_files" /\ items[k] \in DOMAIN fs /\ HasTxtSuffix(items[k])

RECURSIVE EligibleUpTo(_)
EligibleUpTo(n) ==
    IF n = 0 THEN <<>>
    ELSE IF Eligible(n) THEN Append(EligibleUpTo(n - 1), n) ELSE EligibleUpTo(n - 1)

----------------------------------------------------------------------------
\* C1: at the end of a run of process_folder or process_text_files the result
\* list has one entry per item that entered processing, failed items included.
C1_EntryPerEnteredItem ==
    (pc = "done" /\ fn \in Batch) => Len(results) = Len(EnteredItems)

----------------------------------------------------------------------------
\* C2: a failure of one item never aborts the batch: whatever failed, the items
\* attempted so far are exactly the eligible ones among those the loop has
\* passed, in order; no item's failure leaves the call as an exception; and the
\* call ends only after the whole list.
C2_FailureIsolation ==
    fn \in Batch =>
        /\ EnteredItems = EligibleUpTo(i - 1)
        /\ i <= Len(items) + 1
        /\ pc \in {"done", "raised"} => i = Len(items) + 1
        /\ pc = "raised" => (output_dir # <<>> /\ results # <<>>)

C2_Witness ==
    /\ pc = "done"
    /\ fn \in Batch
    /\ \E j, k \in 1..Len(items) : j < k /\ Failed(j) /\ Entered(k)

----------------------------------------------------------------------------
\* C3: in process_folder with an output directory, an item whose transcription
\* succeeded and whose response stage then failed has its transcription file
\* on disk, and the item is failed.
TranscriptionPath(k) ==
    join(output_dir, splitext_root(basename(items[k])) \o TranscriptionSuffix)

C3_TranscriptionKeptOnResponseFailure ==
    fn = "process_folder" /\ output_dir # <<>> =>
        \A k \in 1..Len(items) :
            (Reported("Transcription", k) /\ ReportedWhy(k, "llm")) =>
                (TranscriptionPath(k) \in DOMAIN fs /\ Failed(k))

----------------------------------------------------------------------------
\* C4: when process_folder or process_text_files has returned, the summary
\* file has been written exactly if the result list is not empty and an output
\* directory was given; a run whose every item was skipped or failed wrote none.
SummaryNames == {FolderSummaryName, TextSummaryName}

SummaryOnDisk ==
    \/ summary # <<>>
    \/ \E p \in DOMAIN fs : basename(p) \in SummaryNames

C4_SummaryIffRecordedAndOutputDir ==
    (pc = "done" /\ fn \in Batch) =>
        /\ SummaryOnDisk <=> (results # <<>> /\ output_dir # <<>>)
        /\ (\A k \in 1..Len(items) : ~ Entered(k) \/ Failed(k)) => ~ SummaryOnDisk
        /\ summary # <<>> =>
              summary[1].path =
                 join(output_dir, IF fn = "process_folder" THEN FolderSummaryName
                                  ELSE TextSummaryName)

C4_Witness ==
    /\ pc = "done"
    /\ fn \in Batch
    /\ summary # <<>>
    /\ \E k \in 1..Len(items) : Failed(k)

----------------------------------------------------------------------------
\* C5: when process_audio_file(file_path) has returned, with or without an
\* output_dir, transcribe/<base-name>_transcription.txt and
\* response/<base-name>_response.txt exist.
TranscribeDir == <<"t", "r", "a", "n", "s", "c", "r", "i", "b", "e">>
ResponseDir == <<"r", "e", "s", "p", "o", "n", "s", "e">>

C5_FixedOutputLocations ==
    (fn = "process_audio_file" /\ pc = "done") =>
        LET base_name == splitext_root(basename(items[1]))
        IN  /\ join(TranscribeDir, base_name \o TranscriptionSuffix) \in DOMAIN fs
            /\ join(ResponseDir, base_name \o ResponseSuffix) \in DOMAIN fs

----------------------------------------------------------------------------
\* C6 as stated: in process_text_files the response stage is invoked for a
\* path exactly if the file exists and its name ends with .txt in any case.
C6_RespondedIffExistingTxt ==
    fn = "process_text_files" =>
        \A k \in 1..(i - 1) :
            Responded(k) <=> (items[k] \in DOMAIN fs /\ HasTxtSuffix(items[k]))

\* C6, amended: in process_text_files the response stage is invoked for a path
\* exactly if the file exists, its name ends with .txt in any case, and the
\* file could be read; a path it is not invoked for raises nothing out of the
\* call and has no entry in the results or the summary, and every response
\* file on disk belongs to a recorded item.
ResponsePath(path) ==
    join(output_dir, splitext_root(basename(path)) \o ResponseSuffix)

C6_RespondedIffReadableTxt ==
    fn = "process_text_files" =>
        /\ \A k \in 1..(i - 1) :
              /\ Responded(k) <=>
                    /\ items[k] \in DOMAIN fs
                    /\ HasTxtSuffix(items[k])
                    /\ ~ ReportedWhy(k, "read")
              /\ ~ Responded(k) => ~ Recorded(k)
        /\ \A k \in i..Len(items) : ~ Responded(k) /\ ~ Recorded(k)
        /\ Len(llmCalls) = Cardinality({k \in 1..Len(items) : Responded(k)})
        /\ \A p \in DOMAIN fs :
              endswith(p, ResponseSuffix) =>
                 \E n \in 1..Len(results) : p = ResponsePath(results[n].file_path)
        /\ summary # <<>> =>
              \A n \in 1..Len(summary[1].entries) : Responded(summary[1].entries[n].item)
        /\ pc = "raised" => i = Len(items) + 1

C6_Witness ==
    /\ pc = "done"
    /\ fn = "process_text_files"
    /\ Len(results) = 1
    /\ summary # <<>>
    /\ \E j, k \in 1..Len(items) :
          /\ Recorded(j)
          /\ items[k] \in DOMAIN fs
          /\ ~ HasTxtSuffix(items[k])
          /\ ~ Responded(k)

----------------------------------------------------------------------------
\* C7: when process_folder has returned, an item's source file has left the
\* input folder exactly if the item completed both stages.
C7_ArchivedIffCompleted ==
    (fn = "process_folder" /\ pc = "done") =>
        \A k \in 1..Len(items) : (items[k] \notin DOMAIN fs) <=> Recorded(k)

----------------------------------------------------------------------------
\* C8: the prompt sent for a text is the template with the text substituted
\* for its placeholder, so different texts send different prompts.
RECURSIVE Substitute(_, _)
Substitute(template, text) ==
    IF template = <<>> THEN <<>>
    ELSE IF Len(template) >= 2 /\ template[1] = "{" /\ template[2] = "}"
    THEN text \o Substitute(SubSeq(template, 3, Len(template)), text)
    ELSE <<Head(template)>> \o Substitute(Tail(template), text)

C8_PromptCarriesText ==
    /\ \A n \in 1..Len(llmCalls) :
          llmCalls[n].prompt = Substitute(PROMPT, llmCalls[n].text)
    /\ \A m, n \in 1..Len(llmCalls) :
          llmCalls[m].text # llmCalls[n].text => llmCalls[m].prompt # llmCalls[n].prompt

----------------------------------------------------------------------------
\* C9: process_folder hands only names with the .wav extension to
\* process_audio_file, and in a folder without any it reports that no .wav
\* files were found and processes nothing.
FolderNames == { n \in FolderEntries : join(InFolder, n) \in DOMAIN fs }

C9_OnlyWavProcessed ==
    fn = "process_folder" =>
        /\ \A n \in 1..Len(transcribed) : HasWavSuffix(transcribed[n])
        /\ (InFolder \in DOMAIN fs /\ ~ \E n \in FolderNames : HasWavSuffix(n)) =>
              /\ transcribed = <<>>
              /\ \E n \in 1..Len(console) : console[n].ev = "No .wav files found"

----------------------------------------------------------------------------
\* C10: the result list only ever grows at its end; its entries are items of
\* the input list in the order of the list, none twice; and the summary lists
\* exactly these entries in this order, with a total equal to their number.
IsPrefix(s, t) == Len(s) <= Len(t) /\ SubSeq(t, 1, Len(s)) = s

ResultsInInputOrder ==
    /\ \A n \in 1..Len(results) :
          /\ results[n].item \in 1..(i - 1)
          /\ results[n].file_path = items[results[n].item]
    /\ \A m, n \in 1..Len(results) : m < n => results[m].item < results[n].item

SummaryListsResults ==
    summary # <<>> =>
        /\ Len(summary[1].entries) = Len(results)
        /\ summary[1].total = Len(summary[1].entries)
        /\ \A n \in 1..Len(results) :
              /\ summary[1].entries[n].item = results[n].item
              /\ summary[1].entries[n].file = basename(items[results[n].item])

C10_ResultsInProcessingOrder ==
    /\ [](ResultsInInputOrder /\ SummaryListsResults)
    /\ [][IsPrefix(results, results')]_vars

C10_Witness ==
    /\ pc = "done"
    /\ fn \in Batch
    /\ Len(results) = 2
    /\ summary # <<>>

====
